---- MODULE Spec2Model ----
(***************************************************************************)
(* Swift Task (src/script.js): the board / folder / task store, its        *)
(* handlers, the per-user persistence in localStorage and the scheduling   *)
(* of dashboard renders.                                                   *)
(*                                                                         *)
(* Strings are sequences of one-character strings, so that trim() and      *)
(* toLowerCase() are computed character by character.  Ids (generateId)    *)
(* are the successive values of a counter.  A date "YYYY-MM-DD" is the     *)
(* tuple <<y, m, d>>, a time "HH:MM" the tuple <<h, mi>>, and the empty    *)
(* form value is the empty tuple in both cases.                            *)
(***************************************************************************)
EXTENDS Integers, Sequences, FiniteSets, TLC

\* ---------------------------------------------------------------- bounds
\* ids handed out by generateId over the whole run
MaxIds == 4
\* value of the wall clock at which the run stops advancing it
MaxClock == 1
\* render timers (setTimeout(..., 10)) that may be pending at once
MaxTimers == 1

\* ------------------------------------------------------ program constants
\* the edit limit of updateTask / editTask
EditLimit == 3

\* the ids of STATIC_USERS that take part
Users == {"user_1", "user_2"}

NoUser == "null"
NoId == 0
Null == <<"null">>
Absent == <<>>

VARIABLES
    currentUser,      \* id of the logged-in user, or NoUser
    currentData,      \* the in-memory store: [boards |-> sequence of boards]
    localStorage,     \* user id -> JSON text saved under swift_task_<id>, or Absent
    currentBoardId,   \* window.currentBoardId
    currentFolderId,  \* window.currentFolderId
    currentEditTask,  \* window.currentEditTask together with the editTaskId field
    nextId,           \* the next id generateId returns
    clock,            \* the wall clock read by new Date()
    timers,           \* number of pending setTimeout(render, 10) callbacks
    isRendering,      \* window.isRendering
    searchInput,      \* searchInput.value
    searchTypeValue,  \* the value of the searchType list
    searchTimers,     \* number of pending setTimeout(..., 300) callbacks of the search field
    frames            \* the pending requestAnimationFrame callbacks of renderDashboard

\* the search field, the search type list and the timers of the search field
searching == <<searchInput, searchTypeValue, searchTimers>>

vars == <<currentUser, currentData, localStorage, currentBoardId, currentFolderId,
          currentEditTask, nextId, clock, timers, isRendering, searching, frames>>

\* ---------------------------------------------------------------- strings
\* the lower-case letter of every capital letter
LowerCase ==
    "A" :> "a" @@ "B" :> "b" @@ "C" :> "c" @@ "D" :> "d" @@ "E" :> "e" @@ "F" :> "f"
    @@ "G" :> "g" @@ "H" :> "h" @@ "I" :> "i" @@ "J" :> "j" @@ "K" :> "k" @@ "L" :> "l"
    @@ "M" :> "m" @@ "N" :> "n" @@ "O" :> "o" @@ "P" :> "p" @@ "Q" :> "q" @@ "R" :> "r"
    @@ "S" :> "s" @@ "T" :> "t" @@ "U" :> "u" @@ "V" :> "v" @@ "W" :> "w" @@ "X" :> "x"
    @@ "Y" :> "y" @@ "Z" :> "z"

\* c.toLowerCase() for one character: a capital letter becomes its lower-case
\* letter, every other character (lower-case letters, digits, blanks, ".", "(")
\* stays as it is
LowerOf(c) == IF c \in DOMAIN LowerCase THEN LowerCase[c] ELSE c

ToLowerCase(s) == [i \in 1..Len(s) |-> LowerOf(s[i])]

RECURSIVE TrimStart(_)
TrimStart(s) ==
    IF s # <<>> /\ Head(s) = " " THEN TrimStart(Tail(s)) ELSE s

RECURSIVE TrimEnd(_)
TrimEnd(s) ==
    IF s # <<>> /\ s[Len(s)] = " " THEN TrimEnd(SubSeq(s, 1, Len(s) - 1)) ELSE s

Trim(s) == TrimEnd(TrimStart(s))

\* a.toLowerCase() === b.toLowerCase()
SameIgnoringCase(a, b) == ToLowerCase(a) = ToLowerCase(b)

\* -------------------------------------------------------------- sequences
\* the elements of a sequence
Range(seq) == { seq[i] : i \in 1..Len(seq) }

\* the folders of a store
FoldersOf(data) == UNION { Range(b.folders) : b \in Range(data.boards) }

\* the tasks of a store
TasksOf(data) == UNION { Range(f.tasks) : f \in FoldersOf(data) }

\* index of the element with this id, 0 when there is none (find / findIndex by id)
IndexOfId(seq, id) ==
    IF \E i \in 1..Len(seq) : seq[i].id = id
    THEN CHOOSE i \in 1..Len(seq) : seq[i].id = id /\ \A j \in 1..(i - 1) : seq[j].id # id
    ELSE 0

\* Array.prototype.filter(x => x.id !== id)
RECURSIVE WithoutId(_, _)
WithoutId(seq, id) ==
    IF seq = <<>> THEN <<>>
    ELSE (IF Head(seq).id # id THEN <<Head(seq)>> ELSE <<>>) \o WithoutId(Tail(seq), id)

\* Array.prototype.splice(index, 1)
RemoveAt(seq, i) == SubSeq(seq, 1, i - 1) \o SubSeq(seq, i + 1, Len(seq))

\* ------------------------------------------------------------ persistence
\* JSON.stringify: every object becomes the list of its key/value pairs
StringifyTask(t) ==
    << <<"id", t.id>>, <<"title", t.title>>, <<"priority", t.priority>>,
       <<"startDate", t.startDate>>, <<"startTime", t.startTime>>,
       <<"dueDate", t.dueDate>>, <<"dueTime", t.dueTime>>,
       <<"description", t.description>>, <<"status", t.status>>,
       <<"createdAt", t.createdAt>>, <<"editCount", t.editCount>>,
       <<"lastEdited", t.lastEdited>> >>

StringifyFolder(f) ==
    << <<"id", f.id>>, <<"name", f.name>>, <<"createdAt", f.createdAt>>,
       <<"tasks", [i \in 1..Len(f.tasks) |-> StringifyTask(f.tasks[i])]>> >>

StringifyBoard(b) ==
    << <<"id", b.id>>, <<"name", b.name>>, <<"createdAt", b.createdAt>>,
       <<"folders", [i \in 1..Len(b.folders) |-> StringifyFolder(b.folders[i])]>> >>

Stringify(data) ==
    << <<"boards", [i \in 1..Len(data.boards) |-> StringifyBoard(data.boards[i])]>> >>

\* JSON.parse: the value stored under a key of the pair list
Value(pairs, key) == pairs[CHOOSE i \in 1..Len(pairs) : pairs[i][1] = key][2]

\* a parse that reads every task as never edited
ParseTaskUnedited(p) ==
    [id |-> Value(p, "id"), title |-> Value(p, "title"), priority |-> Value(p, "priority"),
     startDate |-> Value(p, "startDate"), startTime |-> Value(p, "startTime"),
     dueDate |-> Value(p, "dueDate"), dueTime |-> Value(p, "dueTime"),
     description |-> Value(p, "description"), status |-> Value(p, "status"),
     createdAt |-> Value(p, "createdAt"), editCount |-> 0, lastEdited |-> Null]

ParseTask(p) ==
    [id |-> Value(p, "id"), title |-> Value(p, "title"), priority |-> Value(p, "priority"),
     startDate |-> Value(p, "startDate"), startTime |-> Value(p, "startTime"),
     dueDate |-> Value(p, "dueDate"), dueTime |-> Value(p, "dueTime"),
     description |-> Value(p, "description"), status |-> Value(p, "status"),
     createdAt |-> Value(p, "createdAt"), editCount |-> Value(p, "editCount"),
     lastEdited |-> Value(p, "lastEdited")]

ParseFolder(p) ==
    [id |-> Value(p, "id"), name |-> Value(p, "name"), createdAt |-> Value(p, "createdAt"),
     tasks |-> [i \in 1..Len(Value(p, "tasks")) |-> ParseTask(Value(p, "tasks")[i])]]

ParseBoard(p) ==
    [id |-> Value(p, "id"), name |-> Value(p, "name"), createdAt |-> Value(p, "createdAt"),
     folders |-> [i \in 1..Len(Value(p, "folders")) |-> ParseFolder(Value(p, "folders")[i])]]

Parse(text) ==
    [boards |-> [i \in 1..Len(Value(text, "boards")) |-> ParseBoard(Value(text, "boards")[i])]]

EmptyData == [boards |-> <<>>]

\* a save that writes the store under the key of every user
saveDataShared(userId, data) == [u \in Users |-> Stringify(data)]

\* saveData(userId, data): localStorage.setItem(`swift_task_${userId}`, JSON.stringify(data))
saveData(userId, data) == [localStorage EXCEPT ![userId] = Stringify(data)]

\* loadData(userId): the parsed text, or { boards: [] } when the key is absent
loadData(userId) ==
    IF localStorage[userId] = Absent THEN EmptyData ELSE Parse(localStorage[userId])

\* new Date().toISOString()
NowISO == <<"iso", clock>>

\* new Date(`${date}T${time}`), as a number of minutes that orders instants as the
\* parsed dates are ordered
DateTime(date, time) ==
    ((((date[1] * 12 + (date[2] - 1)) * 31 + (date[3] - 1)) * 24) + time[1]) * 60 + time[2]

\* ----------------------------------------------------------------- inputs
D1 == <<2024, 1, 1>>
D2 == <<2024, 1, 2>>
T9 == <<9, 0>>
T10 == <<10, 0>>

\* values typed into the board name field (addBoard receives them untrimmed)
BoardNames == { <<>>, <<" ">>, <<"a">>, <<"A">>, <<" ", "a">>, <<"b">> }

\* values typed into the folder name field
FolderNames == { <<>>, <<"a">>, <<"A", " ">>, <<"b">> }

Form(title, priority, sd, st, dd, dt, description) ==
    [title |-> title, priority |-> priority, startDate |-> sd, startTime |-> st,
     dueDate |-> dd, dueTime |-> dt, description |-> description]

\* contents of the add-task and edit-task forms when they are submitted
FormA == Form(<<"a">>, "low", D1, T10, D2, T10, <<>>)           \* start before due
FormB == Form(<<"b">>, "urgent", D1, T10, D1, T10, <<"x">>)     \* start equal to due
FormUpperA == Form(<<"A">>, "medium", D1, T9, D1, T10, <<>>)    \* same date, earlier time
FormAfter == Form(<<"a">>, "high", D2, T10, D1, T10, <<>>)      \* start after due
FormBlank == Form(<<" ">>, "low", D1, T10, D2, T10, <<>>)       \* blank title
FormNoDate == Form(<<"b">>, "low", <<>>, T10, D2, T10, <<>>)    \* no start date

TaskForms == {FormA, FormB, FormUpperA, FormAfter, FormBlank, FormNoDate}

Statuses == {"pending", "active", "completed"}

\* ids a handler can be called with: those handed out so far
IssuedIds == 1..(nextId - 1)

NoEdit == [taskId |-> NoId, boardId |-> NoId, folderId |-> NoId]

\* ------------------------------------------------------------------- init
Init ==
    /\ currentUser = NoUser
    /\ currentData = EmptyData
    /\ localStorage = [u \in Users |-> Absent]
    /\ currentBoardId = NoId
    /\ currentFolderId = NoId
    /\ currentEditTask = NoEdit
    /\ nextId = 1
    /\ clock = 0
    /\ timers = 0
    /\ isRendering = FALSE
    /\ searchInput = <<>>
    /\ searchTypeValue = "all"
    /\ searchTimers = 0
    /\ frames = <<>>

Boards == currentData.boards

\* the dashboard, its buttons and forms are shown between login and logout
LoggedIn == currentUser # NoUser

\* How a handler call ends is a function of the state and of the call's inputs:
\*   "done"       it ran to its end (a success notification is deferred to a timer)
\*   "return"     it returned early without a notification
\*   "TypeError"  it threw on a property of undefined
\*   otherwise    the text of the error notification it showed before returning
Done == "done"
Return == "return"
TypeError == "TypeError"

\* saveData(currentUser.id, currentData); setTimeout(() => { renderDashboard(); ... }, 10)
SavesAndSchedules ==
    /\ timers < MaxTimers
    /\ localStorage' = saveData(currentUser, currentData')
    /\ timers' = timers + 1

\* ------------------------------------------------------------------ search
\* the characters of a priority or of a status, which are lower-case words
Chars(word) ==
    CASE word = "low" -> <<"l", "o", "w">>
      [] word = "medium" -> <<"m", "e", "d", "i", "u", "m">>
      [] word = "high" -> <<"h", "i", "g", "h">>
      [] word = "urgent" -> <<"u", "r", "g", "e", "n", "t">>
      [] word = "pending" -> <<"p", "e", "n", "d", "i", "n", "g">>
      [] word = "active" -> <<"a", "c", "t", "i", "v", "e">>
      [] word = "completed" -> <<"c", "o", "m", "p", "l", "e", "t", "e", "d">>

\* text.includes(term)
Includes(text, term) ==
    \E i \in 0..(Len(text) - Len(term)) : SubSeq(text, i + 1, i + Len(term)) = term

\* the concatenation of the sequences of a sequence
RECURSIVE Flatten(_)
Flatten(seqs) == IF seqs = <<>> THEN <<>> ELSE Head(seqs) \o Flatten(Tail(seqs))

\* expand arrays returned as they were pushed
Pushed(ids) == ids

\* [...new Set(ids)]: the ids in the order of their first occurrence
RECURSIVE Unique(_)
Unique(ids) ==
    IF ids = <<>> THEN <<>>
    ELSE LET init == Unique(SubSeq(ids, 1, Len(ids) - 1))
             last == ids[Len(ids)]
         IN  IF \E i \in 1..Len(init) : init[i] = last THEN init ELSE Append(init, last)

\* a search field that holds only blanks
IsEmptyTerm(searchTerm) == searchTerm = <<>>

\* !searchTerm.trim()
IsBlankTerm(searchTerm) == Trim(searchTerm) = <<>>

\* searchTerm.toLowerCase().trim()
TermOf(searchTerm) == Trim(ToLowerCase(searchTerm))

\* the test of a board name
BoardNameHit(board, term, searchType) ==
    /\ searchType \in {"all", "boards"}
    /\ Includes(ToLowerCase(board.name), term)

\* the test of a folder name
FolderNameHit(folder, term, searchType) ==
    /\ searchType \in {"all", "folders"}
    /\ Includes(ToLowerCase(folder.name), term)

\* the test of a task: title, description, priority, status
TaskHit(task, term, searchType) ==
    /\ searchType \in {"all", "tasks"}
    /\ \/ Includes(ToLowerCase(task.title), term)
       \/ task.description # <<>> /\ Includes(ToLowerCase(task.description), term)
       \/ Includes(Chars(task.priority), term)
       \/ Includes(Chars(task.status), term)

\* a folder's turn that keeps every task of the folder once one of them matches
FilteredTasksWhole(folder, term, searchType) ==
    IF \/ FolderNameHit(folder, term, searchType)
       \/ \E k \in 1..Len(folder.tasks) : TaskHit(folder.tasks[k], term, searchType)
    THEN folder.tasks
    ELSE <<>>

\* filteredFolder.tasks at the end of the folder's turn
FilteredTasks(folder, term, searchType) ==
    IF FolderNameHit(folder, term, searchType) THEN folder.tasks
    ELSE SelectSeq(folder.tasks, LAMBDA task : TaskHit(task, term, searchType))

\* folderMatches at the end of the folder's turn
FolderMatches(folder, term, searchType) ==
    \/ FolderNameHit(folder, term, searchType)
    \/ FilteredTasks(folder, term, searchType) # <<>>

\* what the folder's turn pushes on expandBoards and on expandFolders: one id when
\* the name matched, one id for each matching task otherwise
Pushes(id, folder, term, searchType) ==
    IF FolderNameHit(folder, term, searchType) THEN <<id>>
    ELSE [k \in 1..Len(FilteredTasks(folder, term, searchType)) |-> id]

\* filteredBoard.folders at the end of the board's turn: every folder when the
\* board's name matched, followed by the folders that match
FilteredFolders(board, term, searchType) ==
    (IF BoardNameHit(board, term, searchType) THEN board.folders ELSE <<>>)
    \o Flatten([j \in 1..Len(board.folders) |->
                   IF FolderMatches(board.folders[j], term, searchType)
                   THEN << [board.folders[j] EXCEPT
                               !.tasks = FilteredTasks(board.folders[j], term, searchType)] >>
                   ELSE <<>>])

\* a board's turn that sets boardMatches for the board's name only
BoardMatchesByName(board, term, searchType) == BoardNameHit(board, term, searchType)

\* boardMatches at the end of the board's turn
BoardMatches(board, term, searchType) ==
    \/ BoardNameHit(board, term, searchType)
    \/ \E j \in 1..Len(board.folders) : FolderMatches(board.folders[j], term, searchType)

\* filteredData at the end of searchData: the boards that match, each with its
\* filtered folders
FilteredData(term, searchType) ==
    [boards |-> Flatten([i \in 1..Len(Boards) |->
        IF BoardMatches(Boards[i], term, searchType)
        THEN << [Boards[i] EXCEPT !.folders = FilteredFolders(Boards[i], term, searchType)] >>
        ELSE <<>>])]

\* searchData(searchTerm, searchType)
searchData(searchTerm, searchType) ==
    IF IsBlankTerm(searchTerm)
    THEN [data |-> currentData, expandBoards |-> <<>>, expandFolders |-> <<>>]
    ELSE LET term == TermOf(searchTerm)
         IN  [data |-> FilteredData(term, searchType),
              expandBoards |->
                  Unique(Flatten([i \in 1..Len(Boards) |->
                      Flatten([j \in 1..Len(Boards[i].folders) |->
                          Pushes(Boards[i].id, Boards[i].folders[j], term, searchType)])])),
              expandFolders |->
                  Unique(Flatten([i \in 1..Len(Boards) |->
                      Flatten([j \in 1..Len(Boards[i].folders) |->
                          Pushes(Boards[i].folders[j].id, Boards[i].folders[j], term,
                                 searchType)])]))]

\* the options of the search type list
Scopes == {"all", "boards", "folders", "tasks"}

\* values typed into the search field
BlankQueries == { <<>>, <<" ">> }

Queries == { <<"a">>, <<"A", " ">>, <<"b">>, <<"o">>, <<"x">> }

\* --------------------------------------------------------------- highlight
\* '<mark class="search-highlight">' and '</mark>', each as one element of a text
MarkOpen == "<mark class=search-highlight>"
MarkClose == "</mark>"

\* what new RegExp throws
SyntaxError == <<"SyntaxError">>

\* new RegExp(`(${searchTerm})`, 'gi') for a term of letters, blanks, "." and "(":
\* a "(" of the term opens a group that nothing closes, and the pattern is refused
Unterminated(searchTerm) == \E i \in 1..Len(searchTerm) : searchTerm[i] = "("

\* one element of the pattern against one character, with the flag i: "." matches
\* any character of a line, a letter or a blank matches itself in either case
ElementMatches(p, c) == p = "." \/ LowerOf(p) = LowerOf(c)

\* the pattern matches the text at its start
MatchesStart(text, pattern) ==
    /\ Len(pattern) <= Len(text)
    /\ \A i \in 1..Len(pattern) : ElementMatches(pattern[i], text[i])

\* text.replace(regex, '<mark class="search-highlight">$1</mark>') with the flag g:
\* the matches from left to right, none overlapping another
RECURSIVE Replace(_, _)
Replace(text, pattern) ==
    IF text = <<>> THEN <<>>
    ELSE IF MatchesStart(text, pattern)
    THEN <<MarkOpen>> \o SubSeq(text, 1, Len(pattern)) \o <<MarkClose>>
         \o Replace(SubSeq(text, Len(pattern) + 1, Len(text)), pattern)
    ELSE <<Head(text)>> \o Replace(Tail(text), pattern)

\* highlightSearchTerm(text, searchTerm)
highlightSearchTerm(text, searchTerm) ==
    IF Trim(searchTerm) = <<>> THEN text
    ELSE IF Unterminated(searchTerm) THEN SyntaxError
    ELSE Replace(text, searchTerm)

\* the labels of the three status buttons of a task
PendingLabel == <<"P", "e", "n", "d", "i", "n", "g">>

ActiveLabel == <<"A", "c", "t", "i", "v", "e">>

CompletedLabel == <<"C", "o", "m", "p", "l", "e", "t", "e", "d">>

\* search terms that are not blank
HighlightQueries == { <<"a">>, <<"A">>, <<"c", "t">>, <<".">>, <<"(">>, <<"a", ".">> }

\* --------------------------------------------------------------- rendering
\* the index in filteredData.boards of the board that is the i-th of the store
FoundIndex(i, term, searchType) ==
    Cardinality({ k \in 1..i : BoardMatches(Boards[k], term, searchType) })

\* The places <<i, j>> of the folders filteredData.boards[i].folders[j] whose tasks
\* array is the array of the store's folder: the copies
\* { ...folder, tasks: folder.tasks } made of every folder of a board whose name
\* matched.
SharedPlaces(term, searchType) ==
    UNION { { <<FoundIndex(i, term, searchType), j>> : j \in 1..Len(Boards[i].folders) } :
            i \in { k \in 1..Len(Boards) : BoardNameHit(Boards[k], term, searchType) } }

\* What the animation-frame callback of a renderDashboard() call closes over:
\*   searchTerm  searchInput.value.trim() read by the call
\*   searchType  the value of the search type list read by the call
\*   data        dataToRender
\*   whole       dataToRender is currentData itself (the search term is empty)
\*   shared      the folders of dataToRender whose tasks array is the store's
\*   linked      the store dataToRender refers to is still currentData
Closure ==
    LET searchTerm == Trim(searchInput)
    IN  IF searchTerm = <<>>
        THEN [searchTerm |-> searchTerm, searchType |-> searchTypeValue,
              data |-> currentData, whole |-> TRUE, shared |-> {}, linked |-> TRUE]
        ELSE [searchTerm |-> searchTerm, searchType |-> searchTypeValue,
              data |-> FilteredData(TermOf(searchTerm), searchTypeValue), whole |-> FALSE,
              shared |-> SharedPlaces(TermOf(searchTerm), searchTypeValue),
              linked |-> TRUE]

\* the task objects of a filtered folder are the store's: each shows the fields of
\* the store's task while the store holds it, and stays as it was once removed
RelinkedTasks(tasks, data) ==
    [k \in 1..Len(tasks) |->
        IF \E t \in TasksOf(data) : t.id = tasks[k].id
        THEN CHOOSE t \in TasksOf(data) : t.id = tasks[k].id
        ELSE tasks[k]]

\* a folder of dataToRender after the store changed in place to data
RelinkedFolder(folder, isShared, data) ==
    IF isShared /\ \E f \in FoldersOf(data) : f.id = folder.id
    THEN [folder EXCEPT !.tasks = (CHOOSE f \in FoldersOf(data) : f.id = folder.id).tasks]
    ELSE [folder EXCEPT !.tasks = RelinkedTasks(folder.tasks, data)]

\* what a callback closes over after the store changed in place to data
Relinked(c, data) ==
    IF ~c.linked THEN c
    ELSE IF c.whole THEN [c EXCEPT !.data = data]
    ELSE [c EXCEPT !.data.boards =
             [i \in 1..Len(c.data.boards) |->
                 [c.data.boards[i] EXCEPT !.folders =
                     [j \in 1..Len(c.data.boards[i].folders) |->
                         RelinkedFolder(c.data.boards[i].folders[j],
                                        <<i, j>> \in c.shared, data)]]]]

\* the pending callbacks after a handler changed the store in place to data
InPlace(data) == [i \in 1..Len(frames) |-> Relinked(frames[i], data)]

\* the pending callbacks after currentData = { boards: [] } or currentData =
\* loadData(...): what they close over is no longer the store
Detached == [i \in 1..Len(frames) |-> [frames[i] EXCEPT !.linked = FALSE]]

\* renderDashboard() that requests a frame while one is pending
renderDashboardAgain(pending) ==
    /\ isRendering' = TRUE
    /\ frames' = Append(pending, Closure')

\* renderDashboard(), called at the end of a step after which the callbacks pending
\* wait: it returns at once while window.isRendering is set, otherwise sets it,
\* reads the search field, computes dataToRender and requests an animation frame
renderDashboard(pending) ==
    IF isRendering
    THEN /\ isRendering' = isRendering
         /\ frames' = pending
    ELSE /\ isRendering' = TRUE
         /\ frames' = Append(pending, Closure')

\* the callback throws: it calls highlightSearchTerm(board.name, searchTerm) for the
\* first board of dataToRender
Throws(c) ==
    /\ c.data.boards # <<>>
    /\ highlightSearchTerm(c.data.boards[1].name, c.searchTerm) = SyntaxError

\* the texts the callback of a render requested now passes to highlightSearchTerm:
\* for dataToRender, the names of its boards and of their folders, the titles,
\* priorities and descriptions of their tasks, and the labels Pending, Active and
\* Completed beside each task; when the call for the first board throws, the
\* forEach is left and that board's name is the only text passed
HighlightedTexts ==
    IF Throws(Closure) THEN { Closure.data.boards[1].name }
    ELSE { b.name : b \in Range(Closure.data.boards) }
         \cup { f.name : f \in FoldersOf(Closure.data) }
         \cup UNION { { t.title, Chars(t.priority), PendingLabel, ActiveLabel, CompletedLabel }
                      \cup (IF t.description # <<>> THEN {t.description} ELSE {}) :
                      t \in TasksOf(Closure.data) }

\* ------------------------------------------------------------ user session
\* loginUser(username) for the username of a static user
loginUser(u) ==
    /\ ~LoggedIn
    /\ currentUser' = u
    /\ currentData' = loadData(u)
    /\ UNCHANGED <<localStorage, currentBoardId, currentFolderId, currentEditTask,
                   nextId, clock, timers, searching>>
    /\ renderDashboard(Detached)

\* logoutUser()
logoutUser ==
    /\ LoggedIn
    /\ localStorage' = saveData(currentUser, currentData)
    /\ currentUser' = NoUser
    /\ currentData' = EmptyData
    /\ frames' = Detached
    /\ UNCHANGED <<currentBoardId, currentFolderId, currentEditTask, nextId, clock,
                   timers, isRendering, searching>>

\* ------------------------------------------------------------------ boards
\* the duplicate check of addBoard comparing the names as they are written
BoardExistsExactly(boards, name) ==
    \E i \in 1..Len(boards) : boards[i].name = name

\* currentData.boards.some(board => board.name.toLowerCase() === name.toLowerCase())
BoardExists(boards, name) ==
    \E i \in 1..Len(boards) : SameIgnoringCase(boards[i].name, name)

NewBoard(name) ==
    [id |-> nextId, name |-> Trim(name), createdAt |-> NowISO, folders |-> <<>>]

addBoardOutcome(name) ==
    IF Trim(name) = <<>> THEN "Please enter a board name"
    ELSE IF BoardExists(Boards, name) THEN "Board already exists"
    ELSE Done

\* addBoard(name)
addBoard(name) ==
    /\ LoggedIn
    /\ IF addBoardOutcome(name) = Done
       THEN /\ nextId <= MaxIds
            /\ currentData' = [currentData EXCEPT !.boards = Append(@, NewBoard(name))]
            /\ nextId' = nextId + 1
            /\ SavesAndSchedules
            /\ frames' = InPlace(currentData')
            /\ UNCHANGED searching
            /\ UNCHANGED <<currentUser, currentBoardId, currentFolderId, currentEditTask,
                           clock, isRendering>>
       ELSE UNCHANGED vars

\* a removal that drops the first board, whatever its id
BoardsWithoutFirst(boards, boardId) == Tail(boards)

\* currentData.boards.filter(b => b.id !== boardId)
BoardsWithout(boards, boardId) == WithoutId(boards, boardId)

\* a deleteBoard that goes on without the board
deleteBoardOutcomeDone(boardId) == Done

deleteBoardOutcome(boardId) ==
    IF IndexOfId(Boards, boardId) = 0 THEN Return ELSE Done

\* deleteBoard(boardId)
deleteBoard(boardId) ==
    /\ LoggedIn
    /\ IF deleteBoardOutcome(boardId) = Done
       THEN /\ currentData' = [currentData EXCEPT !.boards = BoardsWithout(@, boardId)]
            /\ SavesAndSchedules
            /\ frames' = InPlace(currentData')
            /\ UNCHANGED searching
            /\ UNCHANGED <<currentUser, currentBoardId, currentFolderId, currentEditTask,
                           nextId, clock, isRendering>>
       ELSE UNCHANGED vars

\* ----------------------------------------------------------------- folders
\* addFolderToBoard(boardId)
addFolderToBoard(boardId) ==
    /\ LoggedIn
    /\ currentBoardId' = boardId
    /\ UNCHANGED <<currentUser, currentData, localStorage, currentFolderId,
                   currentEditTask, nextId, clock, timers, isRendering, searching,
                   frames>>

\* the duplicate check of createFolder comparing the names as they are written
FolderExistsExactly(folders, folderName) ==
    \E i \in 1..Len(folders) : folders[i].name = folderName

\* board.folders.some(folder => folder.name.toLowerCase() === folderName.toLowerCase())
FolderExists(folders, folderName) ==
    \E i \in 1..Len(folders) : SameIgnoringCase(folders[i].name, folderName)

NewFolder(folderName) ==
    [id |-> nextId, name |-> Trim(folderName), createdAt |-> NowISO, tasks |-> <<>>]

\* input is the content of the folder name field
createFolderOutcome(input) ==
    LET folderName == Trim(input)
        bi == IndexOfId(Boards, currentBoardId)
    IN  IF folderName = <<>> THEN "Please enter a folder name"
        ELSE IF currentBoardId = NoId THEN "Please select a board to add folder"
        ELSE IF bi = 0 THEN Return
        ELSE IF FolderExists(Boards[bi].folders, folderName)
        THEN "Folder already exists in this board"
        ELSE Done

\* createFolder()
createFolder(input) ==
    LET bi == IndexOfId(Boards, currentBoardId)
    IN  /\ LoggedIn
        /\ IF createFolderOutcome(input) = Done
           THEN /\ nextId <= MaxIds
                /\ currentData' =
                       [currentData EXCEPT !.boards[bi].folders = Append(@, NewFolder(Trim(input)))]
                /\ nextId' = nextId + 1
                /\ SavesAndSchedules
                /\ frames' = InPlace(currentData')
                /\ UNCHANGED searching
                /\ UNCHANGED <<currentUser, currentBoardId, currentFolderId,
                               currentEditTask, clock, isRendering>>
           ELSE UNCHANGED vars

\* board.folders.filter(f => f.id !== folderId)
FoldersWithout(folders, folderId) == WithoutId(folders, folderId)

deleteFolderFromBoardOutcome(boardId, folderId) ==
    LET bi == IndexOfId(Boards, boardId)
    IN  IF bi = 0 THEN Return
        ELSE IF IndexOfId(Boards[bi].folders, folderId) = 0 THEN Return
        ELSE Done

\* deleteFolderFromBoard(boardId, folderId)
deleteFolderFromBoard(boardId, folderId) ==
    LET bi == IndexOfId(Boards, boardId)
    IN  /\ LoggedIn
        /\ IF deleteFolderFromBoardOutcome(boardId, folderId) = Done
           THEN /\ currentData' =
                       [currentData EXCEPT !.boards[bi].folders = FoldersWithout(@, folderId)]
                /\ SavesAndSchedules
                /\ frames' = InPlace(currentData')
                /\ UNCHANGED searching
                /\ UNCHANGED <<currentUser, currentBoardId, currentFolderId,
                               currentEditTask, nextId, clock, isRendering>>
           ELSE UNCHANGED vars

\* ------------------------------------------------------------------- tasks
addTaskToFolderOutcome(boardId, folderId) ==
    LET bi == IndexOfId(Boards, boardId)
    IN  IF bi = 0 THEN Return
        ELSE IF IndexOfId(Boards[bi].folders, folderId) = 0 THEN Return
        ELSE Done

\* addTaskToFolder(boardId, folderId)
addTaskToFolder(boardId, folderId) ==
    /\ LoggedIn
    /\ IF addTaskToFolderOutcome(boardId, folderId) = Done
       THEN /\ currentBoardId' = boardId
            /\ currentFolderId' = folderId
            /\ UNCHANGED <<currentUser, currentData, localStorage, currentEditTask,
                           nextId, clock, timers, isRendering, searching, frames>>
       ELSE UNCHANGED vars

\* !title || !startDate || !startTime || !dueDate || !dueTime
MissingRequired(t) ==
    \/ t.title = <<>>
    \/ t.startDate = <<>>
    \/ t.startTime = <<>>
    \/ t.dueDate = <<>>
    \/ t.dueTime = <<>>

\* startDateTime > dueDateTime
StartAfterDue(t) ==
    DateTime(t.startDate, t.startTime) > DateTime(t.dueDate, t.dueTime)

\* folder.tasks.some(task => task.title.toLowerCase() === title.toLowerCase())
TitleExists(tasks, title) ==
    \E i \in 1..Len(tasks) : SameIgnoringCase(tasks[i].title, title)

\* a new task that starts active and already edited once
NewTaskEdited(form) ==
    [id |-> nextId, title |-> Trim(form.title), priority |-> form.priority,
     startDate |-> form.startDate, startTime |-> form.startTime,
     dueDate |-> form.dueDate, dueTime |-> form.dueTime,
     description |-> Trim(form.description), status |-> "active",
     createdAt |-> NowISO, editCount |-> 1, lastEdited |-> NowISO]

NewTask(form) ==
    [id |-> nextId, title |-> Trim(form.title), priority |-> form.priority,
     startDate |-> form.startDate, startTime |-> form.startTime,
     dueDate |-> form.dueDate, dueTime |-> form.dueTime,
     description |-> Trim(form.description), status |-> "pending",
     createdAt |-> NowISO, editCount |-> 0, lastEdited |-> Null]

\* form is the content of the add-task form
addTaskOutcome(form) ==
    LET new == NewTask(form)
        bi == IndexOfId(Boards, currentBoardId)
        fi == IF bi = 0 THEN 0 ELSE IndexOfId(Boards[bi].folders, currentFolderId)
    IN  IF MissingRequired(new) THEN "Please fill in all required fields"
        ELSE IF StartAfterDue(new) THEN "Start date/time cannot be after due date/time"
        ELSE IF currentBoardId = NoId \/ currentFolderId = NoId
        THEN "Please select a folder to add task"
        ELSE IF bi = 0 \/ fi = 0 THEN TypeError
        ELSE IF TitleExists(Boards[bi].folders[fi].tasks, new.title)
        THEN "A task with this name already exists in this folder"
        ELSE Done

\* addTask()
addTask(form) ==
    LET bi == IndexOfId(Boards, currentBoardId)
        fi == IndexOfId(Boards[bi].folders, currentFolderId)
    IN  /\ LoggedIn
        /\ IF addTaskOutcome(form) = Done
           THEN /\ nextId <= MaxIds
                /\ currentData' =
                       [currentData EXCEPT !.boards[bi].folders[fi].tasks = Append(@, NewTask(form))]
                /\ nextId' = nextId + 1
                /\ SavesAndSchedules
                /\ frames' = InPlace(currentData')
                /\ UNCHANGED searching
                /\ UNCHANGED <<currentUser, currentBoardId, currentFolderId,
                               currentEditTask, clock, isRendering>>
           ELSE UNCHANGED vars

NoPlace == <<0, 0, 0>>

\* whether folder.tasks.find(t => t.id === taskId) finds a task
InFolder(folder, taskId) == IndexOfId(folder.tasks, taskId) # 0

InBoard(board, taskId) ==
    \E j \in 1..Len(board.folders) : InFolder(board.folders[j], taskId)

\* the scan "for board of boards, for folder of board.folders, tasks.find(id)":
\* the place <<board, folder, task>> of the first task found, as indexes, NoPlace
\* when the task is in no folder
FindTask(boards, taskId) ==
    IF \E i \in 1..Len(boards) : InBoard(boards[i], taskId)
    THEN LET bi == CHOOSE i \in 1..Len(boards) :
                       /\ InBoard(boards[i], taskId)
                       /\ \A k \in 1..(i - 1) : ~InBoard(boards[k], taskId)
             folders == boards[bi].folders
             fi == CHOOSE j \in 1..Len(folders) :
                       /\ InFolder(folders[j], taskId)
                       /\ \A k \in 1..(j - 1) : ~InFolder(folders[k], taskId)
         IN  <<bi, fi, IndexOfId(folders[fi].tasks, taskId)>>
    ELSE NoPlace

TaskAt(boards, p) == boards[p[1]].folders[p[2]].tasks[p[3]]

\* editTask opening the form for a task that has used its edits
EditLimitIgnored(task) == task.editCount > EditLimit

\* task.editCount >= 3 in editTask
EditLimitReached(task) == task.editCount >= EditLimit

editTaskOutcome(taskId) ==
    LET p == FindTask(Boards, taskId)
    IN  IF p = NoPlace THEN Return
        ELSE IF EditLimitReached(TaskAt(Boards, p))
        THEN "This task has reached its edit limit (3 times)"
        ELSE Done

\* editTask(taskId)
editTask(taskId) ==
    LET p == FindTask(Boards, taskId)
    IN  /\ LoggedIn
        /\ IF editTaskOutcome(taskId) = Done
           THEN /\ currentEditTask' = [taskId |-> taskId, boardId |-> Boards[p[1]].id,
                                       folderId |-> Boards[p[1]].folders[p[2]].id]
                /\ UNCHANGED <<currentUser, currentData, localStorage, currentBoardId,
                               currentFolderId, nextId, clock, timers, isRendering,
                               searching, frames>>
           ELSE UNCHANGED vars

\* updateTask comparing the count with the limit one edit too late
UpdateLimitLate(task) == task.editCount > EditLimit

\* task.editCount >= 3 in updateTask
UpdateLimitReached(task) == task.editCount >= EditLimit

\* an update that counts the edit without recording its time
EditedUnstamped(task, form) ==
    [task EXCEPT !.title = Trim(form.title), !.priority = form.priority,
                 !.startDate = form.startDate, !.startTime = form.startTime,
                 !.dueDate = form.dueDate, !.dueTime = form.dueTime,
                 !.description = Trim(form.description),
                 !.editCount = @ + 1]

\* the assignments of updateTask to the task
Edited(task, form) ==
    [task EXCEPT !.title = Trim(form.title), !.priority = form.priority,
                 !.startDate = form.startDate, !.startTime = form.startTime,
                 !.dueDate = form.dueDate, !.dueTime = form.dueTime,
                 !.description = Trim(form.description),
                 !.editCount = @ + 1, !.lastEdited = NowISO]

\* the place of the task window.currentEditTask names, looked up as updateTask does:
\* 0 for the board or folder when find() gives undefined, 0 for a task not found
EditPlace ==
    LET e == currentEditTask
        bi == IndexOfId(Boards, e.boardId)
        fi == IF bi = 0 THEN 0 ELSE IndexOfId(Boards[bi].folders, e.folderId)
        ti == IF fi = 0 THEN 0 ELSE IndexOfId(Boards[bi].folders[fi].tasks, e.taskId)
    IN  <<bi, fi, ti>>

\* form is the content of the edit-task form
updateTaskOutcome(form) ==
    LET p == EditPlace
    IN  IF currentEditTask = NoEdit THEN "Task not found"
        ELSE IF p[1] = 0 \/ p[2] = 0 THEN TypeError
        ELSE IF p[3] = 0 THEN Return
        ELSE IF UpdateLimitReached(TaskAt(Boards, p)) THEN "This task has reached its edit limit"
        ELSE IF MissingRequired(Edited(TaskAt(Boards, p), form))
        THEN "Please fill in all required fields"
        ELSE IF StartAfterDue(Edited(TaskAt(Boards, p), form))
        THEN "Start date/time cannot be after due date/time"
        ELSE Done

\* the outcomes of updateTask reached after its assignments to the task
UpdateAssigned ==
    {Done, "Please fill in all required fields", "Start date/time cannot be after due date/time"}

\* updateTask()
updateTask(form) ==
    LET p == EditPlace
        how == updateTaskOutcome(form)
    IN  /\ LoggedIn
        /\ IF how \in UpdateAssigned
           THEN /\ currentData' =
                       [currentData EXCEPT !.boards[p[1]].folders[p[2]].tasks[p[3]] =
                                               Edited(@, form)]
                /\ IF how = Done
                   THEN SavesAndSchedules
                   ELSE UNCHANGED <<localStorage, timers>>
                /\ frames' = InPlace(currentData')
                /\ UNCHANGED searching
                /\ UNCHANGED <<currentUser, currentBoardId, currentFolderId,
                               currentEditTask, nextId, clock, isRendering>>
           ELSE UNCHANGED vars

deleteTaskOutcome(taskId) ==
    IF FindTask(Boards, taskId) = NoPlace THEN Return ELSE Done

\* deleteTask(taskId)
deleteTask(taskId) ==
    LET p == FindTask(Boards, taskId)
    IN  /\ LoggedIn
        /\ IF deleteTaskOutcome(taskId) = Done
           THEN /\ currentData' =
                       [currentData EXCEPT !.boards[p[1]].folders[p[2]].tasks = RemoveAt(@, p[3])]
                /\ SavesAndSchedules
                /\ frames' = InPlace(currentData')
                /\ UNCHANGED searching
                /\ UNCHANGED <<currentUser, currentBoardId, currentFolderId,
                               currentEditTask, nextId, clock, isRendering>>
           ELSE UNCHANGED vars

\* a status change that is counted as an edit
WithStatusCounted(task, status) == [task EXCEPT !.status = status, !.editCount = @ + 1]

\* task.status = status
WithStatus(task, status) == [task EXCEPT !.status = status]

changeTaskStatusOutcome(taskId) ==
    IF FindTask(Boards, taskId) = NoPlace THEN Return ELSE Done

\* changeTaskStatus(taskId, status)
changeTaskStatus(taskId, status) ==
    LET p == FindTask(Boards, taskId)
    IN  /\ LoggedIn
        /\ IF changeTaskStatusOutcome(taskId) = Done
           THEN /\ currentData' =
                       [currentData EXCEPT !.boards[p[1]].folders[p[2]].tasks[p[3]] =
                                               WithStatus(@, status)]
                /\ SavesAndSchedules
                /\ frames' = InPlace(currentData')
                /\ UNCHANGED searching
                /\ UNCHANGED <<currentUser, currentBoardId, currentFolderId,
                               currentEditTask, nextId, clock, isRendering>>
           ELSE UNCHANGED vars

\* --------------------------------------------------------------- scheduling
\* a setTimeout(..., 10) callback runs: renderDashboard()
TimerFires ==
    /\ timers > 0
    /\ timers' = timers - 1
    /\ UNCHANGED <<currentUser, currentData, localStorage, currentBoardId, currentFolderId,
                   currentEditTask, nextId, clock, searching>>
    /\ renderDashboard(frames)

\* the oldest requestAnimationFrame callback of renderDashboard runs: it fills
\* boardsContainer with the boards of dataToRender and clears window.isRendering,
\* unless highlightSearchTerm throws before the first board is appended
FrameRuns ==
    /\ frames # <<>>
    /\ frames' = Tail(frames)
    /\ isRendering' = (isRendering /\ Throws(Head(frames)))
    /\ UNCHANGED <<currentUser, currentData, localStorage, currentBoardId, currentFolderId,
                   currentEditTask, nextId, clock, timers, searching>>

\* the wall clock advances
Tick ==
    /\ clock < MaxClock
    /\ clock' = clock + 1
    /\ UNCHANGED <<currentUser, currentData, localStorage, currentBoardId, currentFolderId,
                   currentEditTask, nextId, timers, isRendering, searching, frames>>

\* ------------------------------------------------------------ search field
\* an input listener that leaves the timer of the previous input event pending
clearTimeoutNot(pending) == pending

\* clearTimeout(searchTimeout): the timer set by the previous input event, when it
\* is still pending, is cancelled
clearTimeout(pending) == IF pending > 0 THEN pending - 1 ELSE 0

\* the input listener of the search field, text being the new value of the field
SearchInput(text) ==
    /\ LoggedIn
    /\ searchInput' = text
    /\ searchTimers' = clearTimeout(searchTimers) + 1
    /\ UNCHANGED <<currentUser, currentData, localStorage, currentBoardId, currentFolderId,
                   currentEditTask, nextId, clock, timers, isRendering, searchTypeValue,
                   frames>>

\* the setTimeout(..., 300) callback of the input listener runs: renderDashboard()
SearchTimerFires ==
    /\ searchTimers > 0
    /\ searchTimers' = searchTimers - 1
    /\ UNCHANGED <<currentUser, currentData, localStorage, currentBoardId, currentFolderId,
                   currentEditTask, nextId, clock, timers, searchInput, searchTypeValue>>
    /\ renderDashboard(frames)

\* the change listener of the search type list: renderDashboard()
SearchTypeChange(searchType) ==
    /\ LoggedIn
    /\ searchTypeValue' = searchType
    /\ UNCHANGED <<currentUser, currentData, localStorage, currentBoardId, currentFolderId,
                   currentEditTask, nextId, clock, timers, searchInput, searchTimers>>
    /\ renderDashboard(frames)

\* clearSearch()
clearSearch ==
    /\ LoggedIn
    /\ searchInput' = <<>>
    /\ searchTypeValue' = "all"
    /\ UNCHANGED <<currentUser, currentData, localStorage, currentBoardId, currentFolderId,
                   currentEditTask, nextId, clock, timers, searchTimers>>
    /\ renderDashboard(frames)

\* --------------------------------------------------------------- countdown
\* days from 1970-01-01 to the date <<y, m, d>> of the Gregorian calendar
DaysFromEpoch(date) ==
    LET y == IF date[2] <= 2 THEN date[1] - 1 ELSE date[1]
        mp == IF date[2] > 2 THEN date[2] - 3 ELSE date[2] + 9
        era == y \div 400
        yoe == y - era * 400
        doy == (153 * mp + 2) \div 5 + (date[3] - 1)
        doe == yoe * 365 + yoe \div 4 - yoe \div 100 + doy
    IN  era * 146097 + doe - 719468

\* new Date(`${date}T${time}`): the minutes from the epoch to the minute <<h, mi>>
\* of the date, in a time zone whose offset does not change
Minutes(date, time) == (DaysFromEpoch(date) * 24 + time[1]) * 60 + time[2]

\* a reading of new Date(): a minute and the milliseconds past it
Instant(date, time, ms) == [minute |-> Minutes(date, time), ms |-> ms]

\* due - now, in milliseconds
Difference(due, now) == (due - now.minute) * 60 * 1000 - now.ms

\* the hours of the countdown taken from the whole difference
CountdownHoursWhole(diff) == diff \div (1000 * 60 * 60)

\* Math.floor(diff / (1000 * 60 * 60 * 24))
CountdownDays(diff) == diff \div (1000 * 60 * 60 * 24)

\* Math.floor((diff % (1000 * 60 * 60 * 24)) / (1000 * 60 * 60))
CountdownHours(diff) == (diff % (1000 * 60 * 60 * 24)) \div (1000 * 60 * 60)

\* Math.floor((diff % (1000 * 60 * 60)) / (1000 * 60))
CountdownMinutes(diff) == (diff % (1000 * 60 * 60)) \div (1000 * 60)

\* Math.floor((diff % (1000 * 60)) / 1000)
CountdownSeconds(diff) == (diff % (1000 * 60)) \div 1000

\* calculateCountdown(dueDate, dueTime), now being what new Date() reads
calculateCountdown(dueDate, dueTime, now) ==
    LET diff == Difference(Minutes(dueDate, dueTime), now)
    IN  IF diff <= 0
        THEN [days |-> 0, hours |-> 0, minutes |-> 0, seconds |-> 0, overdue |-> TRUE]
        ELSE [days |-> CountdownDays(diff), hours |-> CountdownHours(diff),
              minutes |-> CountdownMinutes(diff), seconds |-> CountdownSeconds(diff),
              overdue |-> FALSE]

\* readings of the clock while the dashboard shows tasks due on D1 or D2 at T10
Nows ==
    { Instant(<<2023, 12, 31>>, <<23, 59>>, 59999),  \* the year before
      Instant(D1, <<8, 57>>, 57500),                 \* 1:02:02.5 before T10 of D1
      Instant(D1, <<9, 59>>, 59500),                 \* half a second before
      Instant(D1, T10, 0),                           \* T10 of D1 itself
      Instant(D1, T10, 10000),                       \* 10 seconds after
      Instant(D2, <<11, 1>>, 1000),                  \* 1:01:01 after T10 of D2
      Instant(<<2024, 1, 20>>, T9, 0) }              \* weeks after

\* ------------------------------------------------------------------- specs
\* ids of the boards, folders and tasks in the store
BoardIds == { Boards[i].id : i \in 1..Len(Boards) }

FolderIds ==
    UNION { { Boards[i].folders[j].id : j \in 1..Len(Boards[i].folders) } : i \in 1..Len(Boards) }

TaskIds ==
    UNION { UNION { { Boards[i].folders[j].tasks[k].id :
                        k \in 1..Len(Boards[i].folders[j].tasks) } :
                    j \in 1..Len(Boards[i].folders) } : i \in 1..Len(Boards) }

\* A task's life: one user, one board with one folder, and one task in the store at
\* a time, which is added with any form, edited with any form, given any status
\* and deleted while the clock advances.
NextEdit ==
    \/ loginUser("user_1")
    \/ addBoard(<<"a">>)
    \/ \E boardId \in BoardIds : addFolderToBoard(boardId)
    \/ createFolder(<<"a">>)
    \/ \E boardId \in BoardIds, folderId \in FolderIds : addTaskToFolder(boardId, folderId)
    \/ \E form \in TaskForms : TaskIds = {} /\ addTask(form)
    \/ \E taskId \in IssuedIds : editTask(taskId)
    \/ \E form \in TaskForms : updateTask(form)
    \/ \E taskId \in IssuedIds : deleteTask(taskId)
    \/ \E taskId \in IssuedIds, status \in Statuses : changeTaskStatus(taskId, status)
    \/ TimerFires
    \/ FrameRuns
    \/ Tick

SpecEdit == Init /\ [][NextEdit]_vars

\* Sibling tasks: one user, one board with one folder, whose tasks are added and
\* edited with two forms of different titles, given any status and deleted.
SiblingForms == {FormA, FormB}

NextSiblings ==
    \/ loginUser("user_1")
    \/ addBoard(<<"a">>)
    \/ \E boardId \in BoardIds : addFolderToBoard(boardId)
    \/ createFolder(<<"a">>)
    \/ \E boardId \in BoardIds, folderId \in FolderIds : addTaskToFolder(boardId, folderId)
    \/ \E form \in SiblingForms : addTask(form)
    \/ \E taskId \in IssuedIds : editTask(taskId)
    \/ \E form \in SiblingForms : updateTask(form)
    \/ \E taskId \in IssuedIds : deleteTask(taskId)
    \/ \E taskId \in IssuedIds, status \in Statuses : changeTaskStatus(taskId, status)
    \/ TimerFires
    \/ FrameRuns

SpecSiblings == Init /\ [][NextSiblings]_vars

\* The tree: one user logs in and out; boards, folders and tasks are added with any
\* name and deleted; tasks are not edited.
TreeForms == {FormA, FormUpperA, FormAfter, FormBlank, FormNoDate}

NextTree ==
    \/ loginUser("user_1")
    \/ logoutUser
    \/ \E name \in BoardNames : addBoard(name)
    \/ \E boardId \in IssuedIds : deleteBoard(boardId)
    \/ \E boardId \in BoardIds : addFolderToBoard(boardId)
    \/ \E input \in FolderNames : createFolder(input)
    \/ \E boardId \in IssuedIds, folderId \in IssuedIds : deleteFolderFromBoard(boardId, folderId)
    \/ \E boardId \in BoardIds, folderId \in FolderIds : addTaskToFolder(boardId, folderId)
    \/ \E form \in TreeForms : addTask(form)
    \/ \E taskId \in IssuedIds : deleteTask(taskId)
    \/ \E taskId \in IssuedIds : changeTaskStatus(taskId, "completed")
    \/ TimerFires
    \/ FrameRuns

SpecTree == Init /\ [][NextTree]_vars

\* The store: one user fills the store with boards, folders and tasks of two names
\* each, and completes tasks; nothing is edited or deleted.
StoreNames == { <<"a">>, <<"b">> }

StoreForms == {FormA, FormB}

NextStore ==
    \/ loginUser("user_1")
    \/ \E name \in StoreNames : addBoard(name)
    \/ \E boardId \in BoardIds : addFolderToBoard(boardId)
    \/ \E input \in StoreNames : createFolder(input)
    \/ \E boardId \in BoardIds, folderId \in FolderIds : addTaskToFolder(boardId, folderId)
    \/ \E form \in StoreForms : addTask(form)
    \/ \E taskId \in IssuedIds : changeTaskStatus(taskId, "completed")
    \/ TimerFires
    \/ FrameRuns

SpecStore == Init /\ [][NextStore]_vars

\* Sessions: the two users log in and out in turn; the user who is logged in adds
\* a board, a folder and a task and edits the task with a valid and with a blank
\* form.
SessionForms == {FormB, FormBlank}

NextSession ==
    \/ \E u \in Users : loginUser(u)
    \/ logoutUser
    \/ addBoard(<<"a">>)
    \/ \E boardId \in BoardIds : addFolderToBoard(boardId)
    \/ createFolder(<<"a">>)
    \/ \E boardId \in BoardIds, folderId \in FolderIds : addTaskToFolder(boardId, folderId)
    \/ addTask(FormA)
    \/ \E taskId \in IssuedIds : editTask(taskId)
    \/ \E form \in SessionForms : updateTask(form)
    \/ TimerFires
    \/ FrameRuns

SpecSession == Init /\ [][NextSession]_vars

\* The dashboard: one user adds boards named "b" and "(", a folder and tasks titled
\* "a" and deletes tasks, while typing "a", "b", "(" or nothing into the search
\* field and choosing the search type; the timers and the animation frames run in
\* any order.
RenderNames == { <<"b">>, <<"(">> }

RenderQueries == { <<>>, <<"a">>, <<"b">>, <<"(">> }

RenderScopes == {"all", "tasks"}

NextRender ==
    \/ loginUser("user_1")
    \/ \E name \in RenderNames : addBoard(name)
    \/ \E boardId \in BoardIds : addFolderToBoard(boardId)
    \/ createFolder(<<"b">>)
    \/ \E boardId \in BoardIds, folderId \in FolderIds : addTaskToFolder(boardId, folderId)
    \/ addTask(FormA)
    \/ \E taskId \in IssuedIds : deleteTask(taskId)
    \/ \E text \in RenderQueries : SearchInput(text)
    \/ SearchTimerFires
    \/ \E searchType \in RenderScopes : SearchTypeChange(searchType)
    \/ clearSearch
    \/ TimerFires
    \/ FrameRuns

SpecRender == Init /\ [][NextRender]_vars

\* the timers and the animation frames that are pending run in the end
SpecRenderFair ==
    /\ SpecRender
    /\ WF_vars(TimerFires)
    /\ WF_vars(SearchTimerFires)
    /\ WF_vars(FrameRuns)

\* The dashboard with names and search texts of letters only, for which
\* highlightSearchTerm does not throw: one board "b", folders "b", tasks titled "a"
\* that are added, completed and deleted, and the search texts "a", "b" and none.
LetterQueries == { <<>>, <<"a">>, <<"b">> }

NextLetters ==
    \/ loginUser("user_1")
    \/ addBoard(<<"b">>)
    \/ \E boardId \in BoardIds : addFolderToBoard(boardId)
    \/ createFolder(<<"b">>)
    \/ \E boardId \in BoardIds, folderId \in FolderIds : addTaskToFolder(boardId, folderId)
    \/ addTask(FormA)
    \/ \E taskId \in IssuedIds : changeTaskStatus(taskId, "completed")
    \/ \E taskId \in IssuedIds : deleteTask(taskId)
    \/ \E text \in LetterQueries : SearchInput(text)
    \/ SearchTimerFires
    \/ clearSearch
    \/ TimerFires
    \/ FrameRuns

\* the timers and the animation frames that are pending run in the end
SpecLettersFair ==
    /\ Init
    /\ [][NextLetters]_vars
    /\ WF_vars(TimerFires)
    /\ WF_vars(SearchTimerFires)
    /\ WF_vars(FrameRuns)

\* One edit session: as in a task's life, but the edit form is opened once in the
\* whole run, and it is submitted with a valid and with a blank form any number
\* of times.
OneSessionForms == {FormA, FormBlank}

NextOneSession ==
    \/ loginUser("user_1")
    \/ addBoard(<<"a">>)
    \/ \E boardId \in BoardIds : addFolderToBoard(boardId)
    \/ createFolder(<<"a">>)
    \/ \E boardId \in BoardIds, folderId \in FolderIds : addTaskToFolder(boardId, folderId)
    \/ \E form \in SiblingForms : addTask(form)
    \/ \E taskId \in IssuedIds : currentEditTask = NoEdit /\ editTask(taskId)
    \/ \E form \in OneSessionForms : updateTask(form)
    \/ \E taskId \in IssuedIds, status \in Statuses : changeTaskStatus(taskId, status)
    \/ TimerFires
    \/ FrameRuns
    \/ Tick

SpecOneSession == Init /\ [][NextOneSession]_vars

\* ------------------------------------------------------------------ claims
StoredTasks == TasksOf(currentData)

\* the task of a store that has this id
TaskById(data, taskId) == TaskAt(data.boards, FindTask(data.boards, taskId))

HasSchedule(t) ==
    t.startDate # <<>> /\ t.startTime # <<>> /\ t.dueDate # <<>> /\ t.dueTime # <<>>

\* C1: every task in the in-memory store that has a start and a due date and time
\* has its start not after its due, whatever forms addTask and updateTask were
\* given.
C1_StartNotAfterDue ==
    \A t \in StoredTasks :
        HasSchedule(t) => DateTime(t.startDate, t.startTime) <= DateTime(t.dueDate, t.dueTime)

\* C2: no two tasks of one folder have titles that are equal ignoring case, after
\* any sequence of addTask and updateTask.
C2_SiblingTitlesUnique ==
    \A b \in Range(Boards) : \A f \in Range(b.folders) :
        \A i, j \in 1..Len(f.tasks) :
            i # j => ~SameIgnoringCase(f.tasks[i].title, f.tasks[j].title)

\* a step in which a task enters the store with editCount 0, and a task that stays
\* in the store keeps its editCount unless the step is an updateTask of that task,
\* which adds one
EditCountStep ==
    \A taskId \in { t.id : t \in TasksOf(currentData') } :
        LET new == TaskById(currentData', taskId)
        IN  IF taskId \in TaskIds
            THEN LET old == TaskById(currentData, taskId)
                 IN  new.editCount # old.editCount =>
                         /\ new.editCount = old.editCount + 1
                         /\ currentEditTask.taskId = taskId
                         /\ \E form \in TaskForms : updateTask(form)
            ELSE new.editCount = 0

\* C3: every task's editCount is in 0..3; it is 0 when the task is created, only
\* updateTask changes it, by one, and no updateTask raises it above 3.
C3_EditCountWithinLimit ==
    /\ [](\A t \in StoredTasks : t.editCount \in 0..EditLimit)
    /\ [][EditCountStep]_vars

\* a task has been edited three times and is still the task of the edit form
C3_Witness ==
    \E t \in StoredTasks :
        t.editCount = EditLimit /\ t.lastEdited # Null /\ currentEditTask.taskId = t.id

\* the fields updateTask writes
EditableFields(t) ==
    <<t.title, t.priority, t.startDate, t.startTime, t.dueDate, t.dueTime,
      t.description, t.editCount, t.lastEdited>>

\* editTask and updateTask answer a task that is at the limit with the edit-limit
\* error, and changeTaskStatus and deleteTask run to their end on it
AtLimitOutcomes ==
    \A t \in StoredTasks :
        t.editCount = EditLimit =>
            /\ editTaskOutcome(t.id) = "This task has reached its edit limit (3 times)"
            /\ currentEditTask.taskId = t.id =>
                   \A form \in TaskForms :
                       updateTaskOutcome(form) = "This task has reached its edit limit"
            /\ changeTaskStatusOutcome(t.id) = Done
            /\ deleteTaskOutcome(t.id) = Done

\* no step changes a field updateTask writes of a task that is at the limit; a
\* changeTaskStatus of the task gives it the status, a deleteTask removes it
AtLimitStep ==
    \A t \in StoredTasks :
        t.editCount = EditLimit =>
            /\ t.id \in { n.id : n \in TasksOf(currentData') } =>
                   EditableFields(TaskById(currentData', t.id)) = EditableFields(t)
            /\ \A status \in Statuses :
                   changeTaskStatus(t.id, status) =>
                       TaskById(currentData', t.id).status = status
            /\ deleteTask(t.id) =>
                   t.id \notin { n.id : n \in TasksOf(currentData') }

\* C4: once a task's editCount is 3, editTask and updateTask on it are rejected
\* with the edit-limit error and its title, priority, dates, times, description,
\* editCount and lastEdited stay as they are, while changeTaskStatus and deleteTask
\* on it still take effect.
C4_FrozenAtLimit ==
    /\ []AtLimitOutcomes
    /\ [][AtLimitStep]_vars

\* a task at the limit is the task of the edit form and has been given a status
C4_Witness ==
    \E t \in StoredTasks :
        /\ t.editCount = EditLimit
        /\ currentEditTask.taskId = t.id
        /\ t.status = "completed"

\* the validation errors of updateTask
UpdateRejections ==
    {"Please fill in all required fields", "Start date/time cannot be after due date/time"}

\* C5: an updateTask whose form fails validation (blank title, a missing date or
\* time, start after due) leaves the in-memory store as it was.
C5_RejectedUpdateKeepsTask ==
    [][(\E form \in TaskForms :
            updateTaskOutcome(form) \in UpdateRejections /\ updateTask(form))
        => UNCHANGED currentData]_vars


\* C6: no two boards of the store have names that are equal ignoring case, after
\* any sequence of addBoard calls with any names, leading and trailing blanks
\* included.
C6_BoardNamesUnique ==
    \A i, j \in 1..Len(Boards) :
        i # j => ~SameIgnoringCase(Boards[i].name, Boards[j].name)

\* C7: no two folders of one board have names that are equal ignoring case.
C7_FolderNamesUnique ==
    \A b \in Range(Boards) :
        \A i, j \in 1..Len(b.folders) :
            i # j => ~SameIgnoringCase(b.folders[i].name, b.folders[j].name)

\* two different boards each have a folder of the same name
C7_Witness ==
    \E i, j \in 1..Len(Boards) :
        /\ i # j
        /\ \E f \in Range(Boards[i].folders), g \in Range(Boards[j].folders) :
               f.id # g.id /\ f.name = g.name


\* the board, and the folder, that the add forms are open for, as sets that are
\* empty when the selected id names nothing in the store
SelectedBoards == { b \in Range(Boards) : b.id = currentBoardId }

SelectedFolders ==
    UNION { { f \in Range(b.folders) : f.id = currentFolderId } : b \in SelectedBoards }

\* a board name that is blank, or equal ignoring case to the name of a board
BoardNameRefused(name) ==
    \/ Trim(name) = <<>>
    \/ \E b \in Range(Boards) : SameIgnoringCase(b.name, name)

\* a folder name that is blank, a field filled in while no board is selected, or a
\* name equal ignoring case to the name of a folder of the selected board
FolderNameRefused(input) ==
    \/ Trim(input) = <<>>
    \/ currentBoardId = NoId
    \/ \E b \in SelectedBoards : \E f \in Range(b.folders) :
           SameIgnoringCase(f.name, Trim(input))

\* a task form with a blank title or a missing date or time, with its start after
\* its due, or with the title of a task of the selected folder
TaskFormRefused(form) ==
    \/ Trim(form.title) = <<>>
    \/ ~HasSchedule(form)
    \/ DateTime(form.startDate, form.startTime) > DateTime(form.dueDate, form.dueTime)
    \/ \E f \in SelectedFolders : \E t \in Range(f.tasks) :
           SameIgnoringCase(t.title, Trim(form.title))

\* an add in one of C8's cases does not run to its end
RefusedAddsAreRejected ==
    /\ \A name \in BoardNames : BoardNameRefused(name) => addBoardOutcome(name) # Done
    /\ \A input \in FolderNames : FolderNameRefused(input) => createFolderOutcome(input) # Done
    /\ \A form \in TaskForms : TaskFormRefused(form) => addTaskOutcome(form) # Done

\* a step that is an add in one of C8's cases
RefusedAdd ==
    \/ \E name \in BoardNames : BoardNameRefused(name) /\ addBoard(name)
    \/ \E input \in FolderNames : FolderNameRefused(input) /\ createFolder(input)
    \/ \E form \in TaskForms : TaskFormRefused(form) /\ addTask(form)

\* C8: an addBoard with a blank or duplicate name, a createFolder with a blank or
\* duplicate name or with no board selected, and an addTask with a missing
\* required field, a start after its due or a duplicate title are rejected, and
\* leave the in-memory store and the saved store as they were.
C8_RejectedAddKeepsStores ==
    /\ []RefusedAddsAreRejected
    /\ [][RefusedAdd => UNCHANGED <<currentData, localStorage>>]_vars

\* a saved store with a board, a folder and a task whose names, written in the
\* other case, are refused as duplicates
C8_Witness ==
    /\ LoggedIn
    /\ localStorage[currentUser] = Stringify(currentData)
    /\ addBoardOutcome(<<"A">>) = "Board already exists"
    /\ createFolderOutcome(<<"A", " ">>) = "Folder already exists in this board"
    /\ addTaskOutcome(FormUpperA) = "A task with this name already exists in this folder"

BoardIdsOf(data) == { b.id : b \in Range(data.boards) }

FolderIdsOf(data) == UNION { { f.id : f \in Range(b.folders) } : b \in Range(data.boards) }

TaskIdsOf(data) == { t.id : t \in TasksOf(data) }

TaskIdsUnder(folders) == UNION { { t.id : t \in Range(f.tasks) } : f \in Range(folders) }

\* seq without its i-th element, the others as they were and in their order
Except(seq, i) == SubSeq(seq, 1, i - 1) \o SubSeq(seq, i + 1, Len(seq))

\* what C9 says of a deleteBoard of a board of the store
DeleteBoardEffect(boardId) ==
    LET bi == IndexOfId(Boards, boardId)
    IN  /\ boardId \notin BoardIdsOf(currentData')
        /\ \A f \in Range(Boards[bi].folders) : f.id \notin FolderIdsOf(currentData')
        /\ TaskIdsUnder(Boards[bi].folders) \cap TaskIdsOf(currentData') = {}
        /\ currentData'.boards = Except(Boards, bi)

\* what C9 says of a deleteFolderFromBoard of a folder of a board of the store
DeleteFolderEffect(boardId, folderId) ==
    LET bi == IndexOfId(Boards, boardId)
        fi == IndexOfId(Boards[bi].folders, folderId)
    IN  /\ folderId \notin FolderIdsOf(currentData')
        /\ TaskIdsUnder(<<Boards[bi].folders[fi]>>) \cap TaskIdsOf(currentData') = {}
        /\ currentData'.boards =
               [Boards EXCEPT ![bi] = [@ EXCEPT !.folders = Except(@, fi)]]

DeleteStep ==
    /\ \A boardId \in BoardIds :
           deleteBoard(boardId) => DeleteBoardEffect(boardId)
    /\ \A boardId \in BoardIds : \A folderId \in FolderIds :
           (deleteFolderFromBoardOutcome(boardId, folderId) = Done
            /\ deleteFolderFromBoard(boardId, folderId)) => DeleteFolderEffect(boardId, folderId)

\* C9: deleteBoard of a board of the store removes the board with every folder and
\* task under it and leaves the other boards as they were and in their order;
\* deleteFolderFromBoard removes that folder with its tasks and leaves its sibling
\* folders, and the other boards, as they were.
C9_DeleteRemovesSubtreeOnly == [][DeleteStep]_vars

\* the first board has been deleted and a board with a folder and a task remains
C9_Witness ==
    /\ LoggedIn
    /\ nextId > 1
    /\ 1 \notin BoardIds
    /\ \E b \in Range(Boards) : \E f \in Range(b.folders) : f.tasks # <<>>

\* a store with the status of every task blanked
StatusErased(data) ==
    [boards |-> [i \in 1..Len(data.boards) |->
        [data.boards[i] EXCEPT !.folders = [j \in 1..Len(@) |->
            [@[j] EXCEPT !.tasks = [k \in 1..Len(@) |->
                [@[k] EXCEPT !.status = "pending"]]]]]]]

\* what C10 says of a changeTaskStatus of a task of the store
ChangeStatusEffect(taskId, status) ==
    /\ StatusErased(currentData') = StatusErased(currentData)
    /\ TaskById(currentData', taskId).status = status
    /\ \A other \in TaskIds \ {taskId} :
           TaskById(currentData', other).status = TaskById(currentData, other).status

\* C10: changeTaskStatus of a task of the store runs to its end whatever the
\* task's editCount, gives the task the status, and changes no other field of the
\* task and no other task, folder or board.
C10_StatusChangeOnly ==
    /\ [](\A t \in StoredTasks : changeTaskStatusOutcome(t.id) = Done)
    /\ [][\A taskId \in TaskIds : \A status \in Statuses :
              changeTaskStatus(taskId, status) => ChangeStatusEffect(taskId, status)]_vars

\* a task at the edit limit has been made active beside a pending sibling
C10_Witness ==
    \E b \in Range(Boards) : \E f \in Range(b.folders) :
        \E t, u \in Range(f.tasks) :
            /\ t.id # u.id
            /\ t.editCount = EditLimit
            /\ t.status = "active"
            /\ u.status = "pending"


\* what C11 says of an addTask that runs to its end: the folder whose id
\* addTaskToFolder stored, in the board whose id it stored, gets one more task at
\* the end of its list, a task with a new id, status pending, editCount 0 and
\* lastEdited null, and nothing else of the store changes
AddTaskEffect ==
    \E bi \in 1..Len(Boards) : \E fi \in 1..Len(Boards[bi].folders) :
        LET old == Boards[bi].folders[fi].tasks
            new == currentData'.boards[bi].folders[fi].tasks
        IN  /\ Boards[bi].id = currentBoardId
            /\ Boards[bi].folders[fi].id = currentFolderId
            /\ Len(new) = Len(old) + 1
            /\ SubSeq(new, 1, Len(old)) = old
            /\ new[Len(new)].id \notin TaskIds
            /\ new[Len(new)].status = "pending"
            /\ new[Len(new)].editCount = 0
            /\ new[Len(new)].lastEdited = Null
            /\ currentData' = [currentData EXCEPT !.boards[bi].folders[fi].tasks = new]

\* C11: an accepted addTask appends exactly one new task, with status pending,
\* editCount 0 and lastEdited null, at the end of the task list of the folder
\* chosen by the preceding addTaskToFolder, and changes no other folder or board.
C11_AddTaskAppendsOne ==
    [][\A form \in TaskForms :
           (addTaskOutcome(form) = Done /\ addTask(form)) => AddTaskEffect]_vars

\* a folder holds two tasks, the first completed since and the second as addTask
\* made it
C11_Witness ==
    \E b \in Range(Boards) : \E f \in Range(b.folders) :
        /\ Len(f.tasks) = 2
        /\ f.tasks[2].status = "pending"
        /\ f.tasks[2].editCount = 0
        /\ f.tasks[2].lastEdited = Null
        /\ f.tasks[1].status = "completed"


\* C12: while a user is logged in, after each store operation has returned,
\* accepted or rejected, the store saved under the user's key, an absent key
\* counting as the empty store, equals the in-memory store.
C12_SavedEqualsMemory ==
    LoggedIn => loadData(currentUser) = currentData


\* what loadData gives for a user from a given content of localStorage
LoadedFrom(storage, u) ==
    IF storage[u] = Absent THEN EmptyData ELSE Parse(storage[u])

\* a logout leaves under the user's key a text that loads as the store held in
\* memory just before; nothing is written while nobody is logged in; a login holds
\* in memory the store loaded from the user's key
RoundTripStep ==
    /\ logoutUser => LoadedFrom(localStorage', currentUser) = currentData
    /\ ~LoggedIn => localStorage' = localStorage
    /\ \A u \in Users : loginUser(u) => currentData' = LoadedFrom(localStorage, u)

\* C13: logging out and logging in again as the same user gives an in-memory
\* store equal to the one held just before the logout: the same ids, fields and
\* order of boards, folders and tasks.
C13_LogoutLoginRoundTrip == [][RoundTripStep]_vars

\* nobody is logged in and a user's key holds a store with an edited task
C13_Witness ==
    /\ ~LoggedIn
    /\ \E u \in Users :
           \E t \in TasksOf(LoadedFrom(localStorage, u)) :
               t.editCount > 0 /\ t.lastEdited # Null


\* ids of the boards, folders and tasks of a store
IdsOf(data) == BoardIdsOf(data) \cup FolderIdsOf(data) \cup TaskIdsOf(data)

\* the store a user holds: the one in memory while the user is logged in, the one
\* under the user's key otherwise
StoreOf(u) == IF currentUser = u THEN currentData ELSE LoadedFrom(localStorage, u)

\* no board, folder or task is in the stores of two users
StoresDisjoint ==
    \A u, v \in Users : u # v => IdsOf(StoreOf(u)) \cap IdsOf(StoreOf(v)) = {}

\* a step taken while a user is logged in leaves the keys of the other users as
\* they were, and a login holds in memory what is under the user's own key
OwnKeyStep ==
    /\ LoggedIn => \A v \in Users \ {currentUser} : localStorage'[v] = localStorage[v]
    /\ \A u \in Users : loginUser(u) => currentData' = LoadedFrom(localStorage, u)

\* C14: an operation performed while user A is logged in never changes the
\* persisted store of another user B, and after a login as B the in-memory store
\* holds no board, folder or task of A's store.
C14_UsersIsolated ==
    /\ []StoresDisjoint
    /\ [][OwnKeyStep]_vars

\* user_2 is logged in with a board of their own while user_1's key holds a board
C14_Witness ==
    /\ currentUser = "user_2"
    /\ Boards # <<>>
    /\ LoadedFrom(localStorage, "user_1").boards # <<>>


\* C15: searchData with an empty or blank query returns the whole current store,
\* with empty expandBoards and expandFolders, for every scope.
C15_BlankQueryReturnsStore ==
    \A searchTerm \in BlankQueries : \A searchType \in Scopes :
        searchData(searchTerm, searchType) =
            [data |-> currentData, expandBoards |-> <<>>, expandFolders |-> <<>>]

\* a store with a task in a folder of a board is searched with a blank query
C15_Witness ==
    /\ LoggedIn
    /\ StoredTasks # {}
    /\ searchData(<<" ">>, "all").data = currentData


\* the boards of a search result that have this id
FoundBoards(result, boardId) == { r \in Range(result.data.boards) : r.id = boardId }

\* C16: when a board's name contains the query, under the scopes all and boards,
\* the board of the search result holds exactly the folders of the store's board,
\* each once and in store order, each with all of its tasks.
C16_NamedBoardKeepsFolders ==
    \A searchTerm \in Queries : \A searchType \in {"all", "boards"} :
        \A b \in Range(Boards) :
            Includes(ToLowerCase(b.name), TermOf(searchTerm)) =>
                /\ FoundBoards(searchData(searchTerm, searchType), b.id) # {}
                /\ \A r \in FoundBoards(searchData(searchTerm, searchType), b.id) :
                       r.folders = b.folders


\* the query as it is compared: in lower case, without the blanks around it
Needle(searchTerm) == Trim(ToLowerCase(searchTerm))

\* the board's name contains the query and the scope covers board names
NamedBoard(b, searchTerm, searchType) ==
    searchType \in {"all", "boards"} /\ Includes(ToLowerCase(b.name), Needle(searchTerm))

\* the folder's name contains the query and the scope covers folder names
NamedFolder(f, searchTerm, searchType) ==
    searchType \in {"all", "folders"} /\ Includes(ToLowerCase(f.name), Needle(searchTerm))

\* the task's title, description, priority or status contains the query and the
\* scope covers tasks
NamedTask(t, searchTerm, searchType) ==
    /\ searchType \in {"all", "tasks"}
    /\ \E text \in {ToLowerCase(t.title), ToLowerCase(t.description),
                    Chars(t.priority), Chars(t.status)} :
           Includes(text, Needle(searchTerm))

\* the folder of the store that has this id
FolderById(folderId) ==
    CHOOSE f \in UNION { Range(b.folders) : b \in Range(Boards) } : f.id = folderId

\* C17: in a board that did not match by name, a folder of the search result
\* holds all of its tasks when its name contains the query, and otherwise exactly
\* its tasks whose title, description, priority or status contains the query, in
\* store order.
C17_FolderTasksInResult ==
    \A searchTerm \in Queries : \A searchType \in Scopes :
        \A b \in Range(Boards) :
            ~NamedBoard(b, searchTerm, searchType) =>
                \A r \in FoundBoards(searchData(searchTerm, searchType), b.id) :
                    \A rf \in Range(r.folders) :
                        rf.tasks =
                            IF NamedFolder(FolderById(rf.id), searchTerm, searchType)
                            THEN FolderById(rf.id).tasks
                            ELSE SelectSeq(FolderById(rf.id).tasks,
                                           LAMBDA t : NamedTask(t, searchTerm, searchType))

\* a search for "b" in a board and a folder named otherwise gives the folder with
\* one of its two tasks
C17_Witness ==
    \E b \in Range(Boards) : \E f \in Range(b.folders) :
        /\ ~NamedBoard(b, <<"b">>, "all")
        /\ ~NamedFolder(f, <<"b">>, "all")
        /\ Len(f.tasks) = 2
        /\ \E r \in FoundBoards(searchData(<<"b">>, "all"), b.id) :
               \E rf \in Range(r.folders) : rf.id = f.id /\ Len(rf.tasks) = 1


\* the folder is in the board of this id of the search result
FolderAppears(result, boardId, folderId) ==
    \E r \in FoundBoards(result, boardId) : \E rf \in Range(r.folders) : rf.id = folderId

\* what C18 says of one search
InclusionRule(searchTerm, searchType) ==
    LET result == searchData(searchTerm, searchType)
    IN  /\ \A r \in Range(result.data.boards) :
               /\ r.id \in BoardIds
               /\ \A rf \in Range(r.folders) :
                      \E b \in Range(Boards) : \E f \in Range(b.folders) :
                          b.id = r.id /\ f.id = rf.id
        /\ \A b \in Range(Boards) :
               /\ \A f \in Range(b.folders) :
                      FolderAppears(result, b.id, f.id) <=>
                          \/ NamedFolder(f, searchTerm, searchType)
                          \/ \E t \in Range(f.tasks) : NamedTask(t, searchTerm, searchType)
                          \/ NamedBoard(b, searchTerm, searchType)
               /\ FoundBoards(result, b.id) # {} <=>
                      \/ NamedBoard(b, searchTerm, searchType)
                      \/ \E f \in Range(b.folders) : FolderAppears(result, b.id, f.id)

\* C18: for a non-blank query and each scope, a folder is in the search result
\* exactly when its name matched, it holds a matching task or its board's name
\* matched, and a board is in the result exactly when its name matched or one of
\* its folders is in the result; names of the kinds outside the scope are not
\* matched.
C18_InclusionRule ==
    \A searchTerm \in Queries : \A searchType \in Scopes :
        InclusionRule(searchTerm, searchType)

\* a search for "b" gives a board named otherwise with one of its two folders
C18_Witness ==
    \E b \in Range(Boards) :
        /\ ~NamedBoard(b, <<"b">>, "all")
        /\ FoundBoards(searchData(<<"b">>, "all"), b.id) # {}
        /\ \E f, g \in Range(b.folders) :
               /\ FolderAppears(searchData(<<"b">>, "all"), b.id, f.id)
               /\ ~FolderAppears(searchData(<<"b">>, "all"), b.id, g.id)


NoDuplicates(seq) == \A i, j \in 1..Len(seq) : i # j => seq[i] # seq[j]

\* the folder matched by name or holds a matching task
FolderToExpand(f, searchTerm, searchType) ==
    \/ NamedFolder(f, searchTerm, searchType)
    \/ \E t \in Range(f.tasks) : NamedTask(t, searchTerm, searchType)

\* what C19 says of one search
ExpansionRule(searchTerm, searchType) ==
    LET result == searchData(searchTerm, searchType)
    IN  /\ NoDuplicates(result.expandFolders)
        /\ NoDuplicates(result.expandBoards)
        /\ Range(result.expandFolders) =
               { f.id : f \in { f \in UNION { Range(b.folders) : b \in Range(Boards) } :
                                    FolderToExpand(f, searchTerm, searchType) } }
        /\ Range(result.expandBoards) =
               { b.id : b \in { b \in Range(Boards) :
                                    \E f \in Range(b.folders) :
                                        FolderToExpand(f, searchTerm, searchType) } }

\* C19: for a non-blank query, expandFolders holds, without duplicates, exactly
\* the ids of the folders that matched by name or hold a matching task, and
\* expandBoards, without duplicates, exactly the ids of the boards of those
\* folders; a board that matched only by its own name is in neither.
C19_ExpansionRule ==
    \A searchTerm \in Queries : \A searchType \in Scopes :
        ExpansionRule(searchTerm, searchType)

\* a search of the tasks for "o" finds two tasks of one folder, a low one and a
\* completed one, and names the folder and its board once
C19_Witness ==
    \E b \in Range(Boards) : \E f \in Range(b.folders) :
        /\ Len(f.tasks) = 2
        /\ \A t \in Range(f.tasks) : NamedTask(t, <<"o">>, "tasks")
        /\ searchData(<<"o">>, "tasks").expandFolders = <<f.id>>
        /\ searchData(<<"o">>, "tasks").expandBoards = <<b.id>>


\* the text with every case-insensitive occurrence of the query itself, from left
\* to right and none overlapping another, between the markers
RECURSIVE LiteralHighlight(_, _)
LiteralHighlight(text, query) ==
    IF text = <<>> THEN <<>>
    ELSE IF /\ Len(query) <= Len(text)
            /\ SameIgnoringCase(SubSeq(text, 1, Len(query)), query)
    THEN <<MarkOpen>> \o SubSeq(text, 1, Len(query)) \o <<MarkClose>>
         \o LiteralHighlight(SubSeq(text, Len(query) + 1, Len(text)), query)
    ELSE <<Head(text)>> \o LiteralHighlight(Tail(text), query)

\* a highlighted text without its markers
Unmarked(marked) == SelectSeq(marked, LAMBDA c : c \notin {MarkOpen, MarkClose})

\* C20: for every text and every non-blank query, special characters of regular
\* expressions included, highlightSearchTerm does not fail, wraps exactly the
\* case-insensitive occurrences of the query itself, and gives back the text when
\* the markers are removed.
C20_HighlightsLiteralQuery ==
    \A text \in HighlightedTexts : \A query \in HighlightQueries :
        /\ highlightSearchTerm(text, query) # SyntaxError
        /\ highlightSearchTerm(text, query) = LiteralHighlight(text, query)
        /\ Unmarked(highlightSearchTerm(text, query)) = text


\* the whole seconds of a number of milliseconds
WholeSeconds(ms) == ms \div 1000

\* the countdown shows the days, hours, minutes and seconds of this many seconds
Decomposes(countdown, diff) ==
    /\ countdown.days = diff \div 86400
    /\ countdown.hours = (diff % 86400) \div 3600
    /\ countdown.minutes = (diff % 3600) \div 60
    /\ countdown.seconds = diff % 60

\* C21: for a due time at or before now, calculateCountdown returns overdue true
\* with the days, hours, minutes and seconds of the whole seconds of |due - now|.
C21_OverdueMagnitude ==
    \A t \in StoredTasks : \A now \in Nows :
        Difference(Minutes(t.dueDate, t.dueTime), now) <= 0 =>
            /\ calculateCountdown(t.dueDate, t.dueTime, now).overdue
            /\ Decomposes(calculateCountdown(t.dueDate, t.dueTime, now),
                          WholeSeconds(0 - Difference(Minutes(t.dueDate, t.dueTime), now)))


\* C22: for a due time strictly after now, calculateCountdown returns overdue
\* false with days, hours, minutes and seconds the floor decomposition of the
\* whole seconds remaining: hours below 24, minutes and seconds below 60, and the
\* four of them adding up to the seconds remaining.
C22_RemainingDecomposed ==
    \A t \in StoredTasks : \A now \in Nows :
        Difference(Minutes(t.dueDate, t.dueTime), now) > 0 =>
            LET countdown == calculateCountdown(t.dueDate, t.dueTime, now)
                diff == WholeSeconds(Difference(Minutes(t.dueDate, t.dueTime), now))
            IN  /\ ~countdown.overdue
                /\ Decomposes(countdown, diff)
                /\ countdown.days >= 0
                /\ countdown.hours \in 0..23
                /\ countdown.minutes \in 0..59
                /\ countdown.seconds \in 0..59
                /\ countdown.days * 86400 + countdown.hours * 3600
                       + countdown.minutes * 60 + countdown.seconds = diff

\* a task is due one day, one hour, two minutes and two and a half seconds after
\* a reading of the clock, and another task half a second after another reading
C22_Witness ==
    /\ \E t \in StoredTasks :
           calculateCountdown(t.dueDate, t.dueTime, Instant(D1, <<8, 57>>, 57500)) =
               [days |-> 1, hours |-> 1, minutes |-> 2, seconds |-> 2, overdue |-> FALSE]
    /\ \E t \in StoredTasks :
           calculateCountdown(t.dueDate, t.dueTime, Instant(D1, <<9, 59>>, 59500)) =
               [days |-> 0, hours |-> 0, minutes |-> 0, seconds |-> 0, overdue |-> FALSE]


\* a step in which renderDashboard() is called: by a timer of a store operation, by
\* the timer of the search field, by the search type list or by clearSearch()
RenderRequested ==
    \/ TimerFires
    \/ SearchTimerFires
    \/ \E searchType \in RenderScopes : SearchTypeChange(searchType)
    \/ clearSearch

\* a request made while window.isRendering is set leaves the pending callback as
\* it is and sets no timer
DroppedWhileRendering ==
    (isRendering /\ RenderRequested) =>
        /\ frames' = frames
        /\ isRendering'
        /\ timers' <= timers
        /\ searchTimers' <= searchTimers

\* C23: at most one dashboard render is in flight at any time: a renderDashboard
\* request that arrives while isRendering is set schedules no second
\* animation-frame callback and is not queued for later, whatever the order of the
\* mutation timers, the search events and the animation frames.
C23_OneRenderInFlight ==
    /\ [](Len(frames) <= 1 /\ (frames # <<>> => isRendering))
    /\ [][DroppedWhileRendering]_vars

\* a render is in flight whose dataToRender is no longer what a render would
\* compute, and no timer is pending: the request that followed the change came
\* while the flag was set
C23_Witness ==
    /\ isRendering
    /\ Len(frames) = 1
    /\ timers = 0
    /\ searchTimers = 0
    /\ frames[1].data # Closure.data


\* an input event leaves exactly one timer pending, and the render requested when
\* the timer fires reads the search field as it is then
DebouncedStep ==
    /\ \A text \in RenderQueries : SearchInput(text) => searchTimers' = 1
    /\ (SearchTimerFires /\ ~isRendering) =>
           /\ searchTimers' = 0
           /\ Len(frames') = Len(frames) + 1
           /\ frames'[Len(frames')].searchTerm = Trim(searchInput)
           /\ frames'[Len(frames')].data =
                  searchData(Trim(searchInput), searchTypeValue).data

\* C24: at most one debounced search timer is pending at any time: each
\* search-input event cancels the timer pending before it, so of a burst of input
\* events only the last one triggers a render, which uses the search text present
\* when its timer fires.
C24_OneSearchTimer ==
    /\ [](searchTimers <= 1)
    /\ [][DebouncedStep]_vars

\* the render of an earlier search text is in flight while the timer of a later,
\* different text is pending
C24_Witness ==
    /\ searchTimers = 1
    /\ frames # <<>>
    /\ frames[1].searchTerm # <<>>
    /\ Trim(searchInput) # <<>>
    /\ frames[1].searchTerm # Trim(searchInput)


\* C27: every render request that sets the isRendering flag eventually clears it
\* again, for every content of the store and every search term, so that later
\* render requests and the countdown refresh are not blocked for ever.
C27_RenderingEnds == isRendering ~> ~isRendering


\* a render is in flight whose callback will fill boardsContainer with the store
\* as it is now: with the whole store when the render read no search term, with
\* what searchData finds in the store for the term and the type the render read
\* otherwise
ShowsStore ==
    /\ frames # <<>>
    /\ ~Throws(Head(frames))
    /\ Head(frames).data =
           searchData(Head(frames).searchTerm, Head(frames).searchType).data

\* C28: after every accepted mutation of the store, whose render timer is then
\* pending, a dashboard render that shows the store as the mutation left it
\* eventually completes, also when a search term is active and the mutation's
\* render request arrives while an earlier render is in flight.
C28_MutationRendered == (timers > 0) ~> ShowsStore


\* the step changes the store in memory or the persisted store, sets a render
\* timer or requests a render
Touched ==
    \/ currentData' # currentData
    \/ localStorage' # localStorage
    \/ timers' # timers
    \/ frames' # frames
    \/ isRendering' # isRendering

\* deleteBoard, deleteFolderFromBoard, deleteTask and changeTaskStatus return at
\* once for an id that is not in the store
UnknownIdOutcomes ==
    /\ \A boardId \in IssuedIds \ BoardIds :
           /\ deleteBoardOutcome(boardId) = Return
           /\ \A folderId \in IssuedIds :
                  deleteFolderFromBoardOutcome(boardId, folderId) = Return
    /\ \A b \in Range(Boards) : \A folderId \in IssuedIds :
           (\A f \in Range(b.folders) : f.id # folderId) =>
               deleteFolderFromBoardOutcome(b.id, folderId) = Return
    /\ \A taskId \in IssuedIds \ TaskIds :
           /\ deleteTaskOutcome(taskId) = Return
           /\ changeTaskStatusOutcome(taskId) = Return

\* a step of one of the four handlers that changes anything was called with an id
\* that is in the store
KnownIdStep ==
    /\ \A boardId \in IssuedIds :
           (Touched /\ deleteBoard(boardId)) => boardId \in BoardIds
    /\ \A boardId, folderId \in IssuedIds :
           (Touched /\ deleteFolderFromBoard(boardId, folderId)) =>
               \E b \in Range(Boards) :
                   b.id = boardId /\ \E f \in Range(b.folders) : f.id = folderId
    /\ \A taskId \in IssuedIds :
           (Touched /\ (deleteTask(taskId) \/ changeTaskStatus(taskId, "completed"))) =>
               taskId \in TaskIds

\* C25: deleteBoard, deleteFolderFromBoard, deleteTask and changeTaskStatus called
\* with an id that is not in the store leave the in-memory store and the persisted
\* store unchanged and schedule no re-render.
C25_UnknownIdIsNoOp ==
    /\ []UnknownIdOutcomes
    /\ [][KnownIdStep]_vars

\* the store holds a board with a folder, and the id of a board, folder or task
\* that was deleted can be passed to the handlers
C25_Witness ==
    /\ LoggedIn
    /\ FolderIds # {}
    /\ IssuedIds \ (BoardIds \cup FolderIds \cup TaskIds) # {}
    /\ \E taskId \in IssuedIds : deleteTaskOutcome(taskId) = Return


\* the board or the folder addTaskToFolder remembered is no longer in the store
StaleAddTarget ==
    /\ currentBoardId # NoId
    /\ currentFolderId # NoId
    /\ \/ IndexOfId(Boards, currentBoardId) = 0
       \/ IndexOfId(Boards[IndexOfId(Boards, currentBoardId)].folders, currentFolderId) = 0

\* the board, the folder or the task editTask remembered is no longer in the store
StaleEditTarget ==
    /\ currentEditTask # NoEdit
    /\ \E i \in 1..3 : EditPlace[i] = 0

\* C26: an addTask or updateTask whose remembered target refers to a board, folder
\* or task that has since been deleted, or to a folder that is not in the
\* remembered board, changes nothing and never ends in an uncaught error.
C26_StaleTargetIsNoOp ==
    \A form \in TaskForms :
        /\ StaleAddTarget => addTaskOutcome(form) \notin {Done, TypeError}
        /\ StaleEditTarget => updateTaskOutcome(form) \notin (UpdateAssigned \cup {TypeError})


\* C29: one edit session, opened by one editTask call, raises the task's
\* editCount by at most 1 however many times updateTask is invoked: when the edit
\* form is opened once in the whole run, no task's editCount exceeds 1.
C29_OneEditPerSession ==
    \A t \in StoredTasks : t.editCount <= 1


\* C30: after any sequence of operations, for every task in the store lastEdited
\* is null if and only if editCount is 0.
C30_LastEditedIffEdited ==
    \A t \in StoredTasks : (t.lastEdited = Null) <=> (t.editCount = 0)

\* a task has been edited twice, the last time after the clock advanced
C30_Witness ==
    \E t \in StoredTasks : t.editCount = 2 /\ t.lastEdited = <<"iso", 1>>


====
